---- MODULE Spec2Model ----
(***************************************************************************)
(* Model of the Telegram front-end of claudanfibot:                        *)
(*   src/app/api/claude_client.py  ClaudeClient, Database, SessionManager  *)
(*   src/app/main.py               the command and message handlers        *)
(*                                                                         *)
(* The three sqlite tables are the persistent state.  A handler is a       *)
(* coroutine: the code between two awaits runs without interruption (the   *)
(* sqlite calls are blocking calls), so one action is one such stretch.    *)
(* Message texts are the update ids (each incoming message is a fresh      *)
(* token; the program never inspects a text), replies are drawn from       *)
(* Replies.  Temperatures are in tenths (7 is 0.7).                        *)
(***************************************************************************)
EXTENDS Integers, Sequences, FiniteSets, TLC

\* ------------------------------------------------------------- bounds
\* messages received in a run of Spec
MaxMsgs == 2
\* messages received in a run of SpecAll
MaxAllMsgs == 1
\* longest history handed to update_session in SpecSession
MaxHistLen == 22
\* messages received in a run of SpecSeq
MaxSeqMsgs == 12
\* messages received in a run of SpecWait
MaxWaitMsgs == 2
\* messages received in a run of SpecClear
MaxClearMsgs == 2

\* user ids, handler slots (handlers that can be in flight at once) and the
\* reply texts the Model Client returns
Users == {1, 2}
Handlers == {1, 2}
Replies == {1, 2}

\* ------------------------------------------------- program constants
\* claude_client.py:216  max_messages = 10
max_messages == 10
\* claude_client.py:125 / main.py:133  temperature 0.7, in tenths
DefaultTemperature == 7
\* claude_client.py:126 / main.py:134
DefaultMaxTokens == 4000
\* claude_client.py:124 / main.py:132
DefaultModel == "claude-3-7-sonnet-20250219"
OtherModel == "claude-3-opus-20240229"

VARIABLES
    users,          \* table users: user_id -> [username, settings (JSON text)]
    sessions,       \* table sessions: user_id -> history (JSON text)
    conversations,  \* table conversations, in autoincrement order
    nextId,         \* id (and text) of the next incoming message
    pc,             \* per handler slot: where the coroutine is suspended
    user_id,        \* handle_message local
    user_message,   \* handle_message local
    settings,       \* handle_message local
    history,        \* handle_message local (the in-memory list)
    claude_response,\* handle_message local
    cause,          \* per slot: which step raised, "none" when none did
    sent,           \* per slot: what reply_text delivered to the user, in order
    wrote,          \* per slot: the handler's update_session call completed
    missed,         \* per slot: texts persisted for its user since it loaded
    last,           \* how the handler that ended last ended, what it delivered
    lastWriter,     \* per user: message whose handler wrote the row last, 0 if none/cleared
    call            \* the last direct call of a store operation and its result

vars == <<users, sessions, conversations, nextId, pc, user_id, user_message,
          settings, history, claude_response, cause, sent, wrote, missed,
          last, lastWriter, call>>

store == <<users, sessions, conversations>>
locals == <<pc, user_id, user_message, settings, history, claude_response,
            cause, sent, wrote, missed>>

\* ------------------------------------------------------------ helpers
Min(a, b) == IF a < b THEN a ELSE b

Turn(role, content) == [role |-> role, content |-> content]

\* Python's history[-n:] for n > 0: the last n entries (all when fewer).
LastN(s, n) == SubSeq(s, Len(s) - Min(Len(s), n) + 1, Len(s))

\* json.dumps of a list of {role, content} dicts: the text is modelled by
\* its token rows; json.loads parses the rows back into dicts.
json_dumps(h) == [i \in 1..Len(h) |-> <<"role", h[i].role, "content", h[i].content>>]
json_loads(t) == [i \in 1..Len(t) |-> [role |-> t[i][2], content |-> t[i][4]]]

\* json.dumps / json.loads of the settings dict: key/value rows in the
\* dict's key order.
KeyOrder == <<"model", "temperature", "max_tokens">>
RECURSIVE dumps_from(_, _)
dumps_from(d, i) ==
    IF i > Len(KeyOrder) THEN <<>>
    ELSE IF KeyOrder[i] \in DOMAIN d
         THEN <<[key |-> KeyOrder[i], val |-> d[KeyOrder[i]]]>> \o dumps_from(d, i + 1)
         ELSE dumps_from(d, i + 1)
json_dumps_dict(d) == dumps_from(d, 1)
json_loads_dict(t) ==
    [k \in {t[i].key : i \in 1..Len(t)} |->
        t[CHOOSE i \in 1..Len(t) : t[i].key = k].val]
EmptyDict == <<>>

\* dict.get that ignores the dict
dict_get_default(d, k, default) == default

\* dict.get(key, default)
dict_get(d, k, default) == IF k \in DOMAIN d THEN d[k] ELSE default

\* ---------------------------------------------------- class Database
default_settings ==
    [model |-> DefaultModel, temperature |-> DefaultTemperature,
     max_tokens |-> DefaultMaxTokens]

\* SELECT 1 FROM users WHERE user_id = ?
user_exists(tbl, id) == id \in DOMAIN tbl

\* register_user with INSERT OR REPLACE: an existing row is overwritten
register_user_replace(tbl, id, username) ==
    [raised |-> FALSE,
     users |-> [k \in DOMAIN tbl \cup {id} |->
                  IF k = id
                  THEN [username |-> username,
                        settings |-> <<[key |-> "model", val |-> DefaultModel],
                                       [key |-> "temperature", val |-> DefaultTemperature],
                                       [key |-> "max_tokens", val |-> DefaultMaxTokens]>>]
                  ELSE tbl[k]]]

\* INSERT INTO users: user_id is the PRIMARY KEY, so a second INSERT of the
\* same id raises sqlite3.IntegrityError and inserts nothing.
register_user(tbl, id, username) ==
    IF id \in DOMAIN tbl
    THEN [raised |-> TRUE, users |-> tbl]
    ELSE [raised |-> FALSE,
          users |-> [k \in DOMAIN tbl \cup {id} |->
                        IF k = id
                        THEN [username |-> username,
                              settings |-> json_dumps_dict(default_settings)]
                        ELSE tbl[k]]]

get_user_settings(tbl, id) ==
    IF id \in DOMAIN tbl THEN json_loads_dict(tbl[id].settings) ELSE EmptyDict

\* settings[key] = value on the loaded dict
dict_set(d, key, value) ==
    [k \in DOMAIN d \cup {key} |-> IF k = key THEN value ELSE d[k]]

\* UPDATE users SET settings = ? WHERE user_id = ?  (no row: nothing changes)
update_user_setting(tbl, id, key, value) ==
    LET new == dict_set(get_user_settings(tbl, id), key, value)
    IN  IF id \in DOMAIN tbl
        THEN [tbl EXCEPT ![id].settings = json_dumps_dict(new)]
        ELSE tbl

\* a log that keeps one row per user: the user's earlier row is replaced
log_conversation_latest(log, id, um, br) ==
    Append(SelectSeq(log, LAMBDA e : e.user_id # id),
           [user_id |-> id, user_message |-> um, bot_response |-> br])

\* INSERT INTO conversations
log_conversation(log, id, um, br) ==
    Append(log, [user_id |-> id, user_message |-> um, bot_response |-> br])

\* ----------------------------------------------- class SessionManager
get_session(tbl, id) ==
    IF id \in DOMAIN tbl THEN json_loads(tbl[id]) ELSE <<>>

\* truncate without the slice: the whole list is kept
truncate_none(h) == h
\* truncate slicing from the front: history[:max_messages * 2]
truncate_head(h) ==
    IF Len(h) > max_messages * 2 THEN SubSeq(h, 1, max_messages * 2) ELSE h
\* truncate without the "* 2" in the slice: history[-max_messages:]
truncate_half(h) ==
    IF Len(h) > max_messages * 2 THEN LastN(h, max_messages) ELSE h

\* truncate keeping one entry less: history[-(max_messages * 2 - 1):]
truncate_odd(h) ==
    IF Len(h) > max_messages * 2 THEN LastN(h, max_messages * 2 - 1) ELSE h

\* the truncation of update_session, lines 216-218
truncate(h) ==
    IF Len(h) > max_messages * 2 THEN LastN(h, max_messages * 2) ELSE h

\* update_session appending the new exchange to the stored row instead of
\* replacing the row
update_session_append(tbl, id, h) ==
    [k \in DOMAIN tbl \cup {id} |->
        IF k = id
        THEN json_dumps(truncate((IF id \in DOMAIN tbl THEN json_loads(tbl[id]) ELSE <<>>)
                                 \o LastN(h, 2)))
        ELSE tbl[k]]

\* INSERT OR REPLACE INTO sessions
update_session(tbl, id, h) ==
    [k \in DOMAIN tbl \cup {id} |->
        IF k = id THEN json_dumps(truncate(h)) ELSE tbl[k]]

\* clear_session whose UPDATE has no WHERE clause: every row is emptied
clear_session_all(tbl, id) == [k \in DOMAIN tbl |-> json_dumps(<<>>)]

\* clear_session that keeps the newest exchange of the row
clear_session_keeps_last(tbl, id) ==
    IF id \in DOMAIN tbl
    THEN [tbl EXCEPT ![id] = json_dumps(LastN(json_loads(tbl[id]), 2))]
    ELSE tbl

\* clear_session whose UPDATE is never committed
clear_session_lost(tbl, id) == tbl

\* UPDATE sessions SET history = '[]' WHERE user_id = ?
clear_session(tbl, id) ==
    IF id \in DOMAIN tbl THEN [tbl EXCEPT ![id] = json_dumps(<<>>)] ELSE tbl

\* ------------------------------------------------------ initial store
\* Database() creates the tables only when the file does not exist
\* (claude_client.py:68), so the process starts either on a fresh file or
\* on what an earlier run left.  PriorStore is what a run leaves in which
\* user 1 did /start and then completed max_messages exchanges (messages
\* 1..max_messages, each answered with reply 1); no other user is known.
PriorPairs(n) ==
    [i \in 1..2 * n |->
        IF i % 2 = 1 THEN Turn("user", (i + 1) \div 2) ELSE Turn("assistant", 1)]
PriorLog(n) ==
    [i \in 1..n |-> [user_id |-> 1, user_message |-> i, bot_response |-> 1]]
Names == {"ann", "bob"}
\* Message ids are Telegram's: the first message of a run has the id that
\* follows the earlier run's.
FirstId == max_messages + 1
FreshStore ==
    [users |-> <<>>, sessions |-> <<>>, conversations |-> <<>>,
     nextId |-> FirstId]
PriorStore ==
    [users |-> register_user(<<>>, 1, "ann").users,
     sessions |-> update_session(<<>>, 1, PriorPairs(max_messages)),
     conversations |-> PriorLog(max_messages),
     nextId |-> FirstId]

\* The record of a direct call: the operation, its arguments (x), what the
\* row held before a clear (before), what it returned (result) and, for a
\* read, the call that preceded it (prev).
NoCall == [op |-> "none", user_id |-> 0, x |-> <<>>, before |-> <<>>]
Strip(c) == [op |-> c.op, user_id |-> c.user_id, x |-> c.x, before |-> c.before]

InitLocals ==
    /\ pc = [h \in Handlers |-> "idle"]
    /\ user_id = [h \in Handlers |-> 0]
    /\ user_message = [h \in Handlers |-> 0]
    /\ settings = [h \in Handlers |-> EmptyDict]
    /\ history = [h \in Handlers |-> <<>>]
    /\ claude_response = [h \in Handlers |-> 0]
    /\ cause = [h \in Handlers |-> "none"]
    /\ sent = [h \in Handlers |-> <<>>]
    /\ wrote = [h \in Handlers |-> FALSE]
    /\ missed = [h \in Handlers |-> {}]
    /\ last = [outcome |-> "none", sent |-> <<>>]
    /\ lastWriter = [u \in Users |-> 0]
    /\ call = NoCall

InitStore(s) ==
    /\ users = s.users
    /\ sessions = s.sessions
    /\ conversations = s.conversations
    /\ nextId = s.nextId

Init == InitLocals /\ InitStore(PriorStore)

\* ------------------------------------- direct calls of SessionManager
\* The histories handed to update_session: short ones and every length from
\* just under the limit of 2 * max_messages up to MaxHistLen, with distinct
\* contents, starting with either role.
Hist(n, k) ==
    [i \in 1..n |-> Turn(IF (i + k) % 2 = 1 THEN "user" ELSE "assistant", 100 + i)]
HistLens == {0, 1, 2, max_messages} \cup ((2 * max_messages - 1)..MaxHistLen)
Histories == {Hist(n, k) : n \in HistLens, k \in {0, 1}}

UpdateSessionCall(u, x) ==
    /\ sessions' = update_session(sessions, u, x)
    /\ call' = [op |-> "update_session", user_id |-> u, x |-> x,
                before |-> <<>>, result |-> <<>>, prev |-> Strip(NoCall)]
    /\ UNCHANGED <<users, conversations, nextId, locals, last, lastWriter>>

GetSessionCall(u) ==
    /\ call' = [op |-> "get_session", user_id |-> u, x |-> <<>>,
                before |-> <<>>, result |-> get_session(sessions, u),
                prev |-> Strip(call)]
    /\ UNCHANGED <<store, nextId, locals, last, lastWriter>>

\* a clear that also deletes the user's rows of the conversations table
ClearSessionCall_purges(u) ==
    /\ sessions' = clear_session(sessions, u)
    /\ conversations' = SelectSeq(conversations, LAMBDA e : e.user_id # u)
    /\ call' = [op |-> "clear_session", user_id |-> u, x |-> <<>>,
                before |-> get_session(sessions, u), result |-> <<>>,
                prev |-> Strip(NoCall)]
    /\ UNCHANGED <<users, nextId, locals, last, lastWriter>>

ClearSessionCall(u) ==
    /\ sessions' = clear_session(sessions, u)
    /\ call' = [op |-> "clear_session", user_id |-> u, x |-> <<>>,
                before |-> get_session(sessions, u), result |-> <<>>,
                prev |-> Strip(NoCall)]
    /\ UNCHANGED <<users, conversations, nextId, locals, last, lastWriter>>

NextSession ==
    \/ \E u \in Users, x \in Histories : UpdateSessionCall(u, x)
    \/ \E u \in Users : GetSessionCall(u)
    \/ \E u \in Users : ClearSessionCall(u)

SpecSession == Init /\ [][NextSession]_vars

\* ------------------------------------------- direct calls of Database
Keys == {"model", "temperature", "max_tokens"}
Values(k) ==
    CASE k = "model" -> {DefaultModel, OtherModel}
      [] k = "temperature" -> {0, DefaultTemperature}
      [] k = "max_tokens" -> {1000, DefaultMaxTokens}
NoRow == [username |-> "", settings |-> <<>>]
RowOf(tbl, u) == IF u \in DOMAIN tbl THEN tbl[u] ELSE NoRow

RegisterUserCall(u, name) ==
    /\ users' = register_user(users, u, name).users
    /\ call' = [op |-> "register_user", user_id |-> u, name |-> name,
                existed |-> user_exists(users, u), row |-> RowOf(users, u),
                raised |-> register_user(users, u, name).raised]
    /\ UNCHANGED <<sessions, conversations, nextId, locals, last, lastWriter>>

UpdateSettingCall(u, key, value) ==
    /\ users' = update_user_setting(users, u, key, value)
    /\ call' = [op |-> "update_user_setting", user_id |-> u, key |-> key,
                value |-> value, dict |-> get_user_settings(users, u)]
    /\ UNCHANGED <<sessions, conversations, nextId, locals, last, lastWriter>>

GetSettingsCall(u) ==
    /\ call' = [op |-> "get_user_settings", user_id |-> u,
                result |-> get_user_settings(users, u),
                prev |-> IF call.op = "update_user_setting" THEN call ELSE NoCall]
    /\ UNCHANGED <<store, nextId, locals, last, lastWriter>>

\* ------------------------------------------------- main.py: commands
\* A command handler runs its store calls and then awaits reply_text; the
\* store is not touched after the await.

\* start_command, lines 28-40
start_command(u, username) ==
    /\ users' = IF ~user_exists(users, u)
                THEN register_user(users, u, username).users
                ELSE users
    /\ UNCHANGED <<sessions, conversations, nextId, locals, last, lastWriter>>

StartCommandCall(u, name) ==
    /\ start_command(u, name)
    /\ call' = [op |-> "start_command", user_id |-> u, name |-> name,
                existed |-> user_exists(users, u), row |-> RowOf(users, u),
                raised |-> ~user_exists(users, u)
                           /\ register_user(users, u, name).raised]

\* clear_command, lines 55-59
clear_command(u) ==
    /\ sessions' = clear_session(sessions, u)
    /\ lastWriter' = [lastWriter EXCEPT ![u] = 0]
    /\ UNCHANGED <<users, conversations, nextId, locals, last>>

\* set_model_command, lines 81-90; args is context.args
set_model_command(u, args) ==
    /\ users' = IF args = <<>> THEN users
                ELSE update_user_setting(users, u, "model", args[1])
    /\ UNCHANGED <<sessions, conversations, nextId, locals, last, lastWriter>>

\* float(context.args[0]) on the arguments the model sends, in tenths
float(a) ==
    CASE a = "0.0" -> [ok |-> TRUE, val |-> 0]
      [] a = "0.5" -> [ok |-> TRUE, val |-> 5]
      [] a = "1.0" -> [ok |-> TRUE, val |-> 10]
      [] a = "1.5" -> [ok |-> TRUE, val |-> 15]
      [] a = "-0.5" -> [ok |-> TRUE, val |-> 0 - 5]
      [] OTHER -> [ok |-> FALSE, val |-> 0]

\* set_temp_command without the range test of line 102
set_temp_command_unchecked(u, args) ==
    /\ users' = IF args = <<>> THEN users
                ELSE IF ~float(args[1]).ok THEN users
                ELSE update_user_setting(users, u, "temperature",
                                         float(args[1]).val)
    /\ UNCHANGED <<sessions, conversations, nextId, locals, last, lastWriter>>

\* set_temp_command, lines 93-108
set_temp_command(u, args) ==
    /\ users' = IF args = <<>> THEN users
                ELSE IF ~float(args[1]).ok THEN users
                ELSE IF 0 <= float(args[1]).val /\ float(args[1]).val <= 10
                     THEN update_user_setting(users, u, "temperature",
                                              float(args[1]).val)
                     ELSE users
    /\ UNCHANGED <<sessions, conversations, nextId, locals, last, lastWriter>>

\* what set_temp_command passes to reply_text: line 97 ("usage"), line 104
\* ("changed"), line 106 ("out_of_range"), line 108 ("not_a_number")
set_temp_reply(args) ==
    IF args = <<>> THEN "usage"
    ELSE IF ~float(args[1]).ok THEN "not_a_number"
    ELSE IF 0 <= float(args[1]).val /\ float(args[1]).val <= 10
         THEN "changed"
         ELSE "out_of_range"

\* what set_model_command passes to reply_text: line 85 ("usage"), line 90
set_model_reply(args) == IF args = <<>> THEN "usage" ELSE "changed"

\* ------------------------------------------- main.py: handle_message
\* A handler instance occupies a slot.  pc is the await it is suspended at:
\*   "typing"       chat.send_action, line 126
\*   "calling"      claude_client.send_message, line 130
\*   "replying"     reply_text(claude_response), line 147
\*   "apologizing"  reply_text(<generic failure text>), line 154
\* and "idle" when no handler runs in the slot.  When a handler returns or
\* raises, its locals are released and `last` records how it ended.
Free == {h \in Handlers : pc[h] = "idle"}
LowestFree == CHOOSE h \in Free : \A g \in Free : h <= g
InFlight(u) == {h \in Handlers : user_id[h] = u /\ pc[h] \in {"typing", "calling"}}

Reply(r) == [kind |-> "reply", text |-> r]
Apology == [kind |-> "apology", text |-> 0]

\* the handler in slot h ends: "replied" and "apologized" are returns,
\* "raised" is an exception leaving handle_message
Finish(h, how, delivered) ==
    /\ last' = [outcome |-> how, sent |-> delivered]
    /\ pc' = [pc EXCEPT ![h] = "idle"]
    /\ user_id' = [user_id EXCEPT ![h] = 0]
    /\ user_message' = [user_message EXCEPT ![h] = 0]
    /\ settings' = [settings EXCEPT ![h] = EmptyDict]
    /\ history' = [history EXCEPT ![h] = <<>>]
    /\ claude_response' = [claude_response EXCEPT ![h] = 0]
    /\ cause' = [cause EXCEPT ![h] = "none"]
    /\ sent' = [sent EXCEPT ![h] = <<>>]
    /\ wrote' = [wrote EXCEPT ![h] = FALSE]
    /\ missed' = [missed EXCEPT ![h] = {}]

\* the arguments of claude_client.send_message, lines 130-135, as the handler
\* in slot h passes them
send_message_args(h) ==
    [messages |-> history[h],
     model |-> dict_get(settings[h], "model", DefaultModel),
     temperature |-> dict_get(settings[h], "temperature", DefaultTemperature),
     max_tokens |-> dict_get(settings[h], "max_tokens", DefaultMaxTokens)]

\* lines 113-126: the settings and the history are loaded, the user turn is
\* appended to the in-memory list, send_action is awaited
HandleStart(u) ==
    /\ Free # {}
    /\ LET h == LowestFree IN
        /\ user_id' = [user_id EXCEPT ![h] = u]
        /\ user_message' = [user_message EXCEPT ![h] = nextId]
        /\ settings' = [settings EXCEPT ![h] = get_user_settings(users, u)]
        /\ history' = [history EXCEPT ![h] =
                          Append(get_session(sessions, u), Turn("user", nextId))]
        /\ pc' = [pc EXCEPT ![h] = "typing"]
    /\ nextId' = nextId + 1
    /\ UNCHANGED <<store, claude_response, cause, sent, wrote, missed, last,
                   lastWriter, call>>

\* lines 117, 120: get_user_settings or get_session raises (a sqlite3 error);
\* both calls are outside the try, the exception leaves the handler
LoadFails(u, step) ==
    /\ Free # {}
    /\ last' = [outcome |-> "raised", sent |-> <<>>]
    /\ nextId' = nextId + 1
    /\ UNCHANGED <<store, locals, lastWriter, call>>

\* TypingDone reading the row again before the call
TypingDone_reloads(h) ==
    /\ pc[h] = "typing"
    /\ pc' = [pc EXCEPT ![h] = "calling"]
    /\ history' = [history EXCEPT ![h] =
                      Append(get_session(sessions, user_id[h]),
                             Turn("user", user_message[h]))]
    /\ UNCHANGED <<store, nextId, user_id, user_message, settings,
                   claude_response, cause, sent, wrote, missed, last,
                   lastWriter, call>>

\* line 126 returns; the try is entered and send_message is awaited
TypingDone(h) ==
    /\ pc[h] = "typing"
    /\ pc' = [pc EXCEPT ![h] = "calling"]
    /\ UNCHANGED <<store, nextId, user_id, user_message, settings, history,
                   claude_response, cause, sent, wrote, missed, last,
                   lastWriter, call>>

\* line 126 raises (a network error), outside the try
TypingFails(h) ==
    /\ pc[h] = "typing"
    /\ Finish(h, "raised", sent[h])
    /\ UNCHANGED <<store, nextId, lastWriter, call>>

\* lines 130-147: status 200 with reply text r; the assistant turn is
\* appended, update_session persists the list, reply_text is awaited
ModelReply(h, r) ==
    /\ pc[h] = "calling"
    /\ claude_response' = [claude_response EXCEPT ![h] = r]
    /\ history' = [history EXCEPT ![h] = Append(@, Turn("assistant", r))]
    /\ sessions' = update_session(sessions, user_id[h], history'[h])
    /\ wrote' = [wrote EXCEPT ![h] = TRUE]
    /\ lastWriter' = [lastWriter EXCEPT ![user_id[h]] = user_message[h]]
    /\ missed' = [g \in Handlers |->
                    IF g \in InFlight(user_id[h]) \ {h}
                    THEN missed[g] \cup {user_message[h]} ELSE missed[g]]
    /\ pc' = [pc EXCEPT ![h] = "replying"]
    /\ UNCHANGED <<users, conversations, nextId, user_id, user_message,
                   settings, cause, sent, last, call>>

\* ModelFails with the in-memory list saved on the error path
ModelFails_persists(h) ==
    /\ pc[h] = "calling"
    /\ cause' = [cause EXCEPT ![h] = "send_message"]
    /\ pc' = [pc EXCEPT ![h] = "apologizing"]
    /\ sessions' = update_session(sessions, user_id[h], history[h])
    /\ UNCHANGED <<users, conversations, nextId, user_id, user_message,
                   settings, history, claude_response, sent, wrote, missed,
                   last, lastWriter, call>>

\* lines 45-47 (or line 138 on a malformed body): send_message raises; the
\* except clause (line 152, read as "except Exception as e:") is entered and
\* the failure text is sent
ModelFails(h) ==
    /\ pc[h] = "calling"
    /\ cause' = [cause EXCEPT ![h] = "send_message"]
    /\ pc' = [pc EXCEPT ![h] = "apologizing"]
    /\ UNCHANGED <<store, nextId, user_id, user_message, settings, history,
                   claude_response, sent, wrote, missed, last, lastWriter,
                   call>>

\* line 144 raises: the reply arrived, update_session wrote nothing
PersistFails(h, r) ==
    /\ pc[h] = "calling"
    /\ claude_response' = [claude_response EXCEPT ![h] = r]
    /\ history' = [history EXCEPT ![h] = Append(@, Turn("assistant", r))]
    /\ cause' = [cause EXCEPT ![h] = "update_session"]
    /\ pc' = [pc EXCEPT ![h] = "apologizing"]
    /\ UNCHANGED <<store, nextId, user_id, user_message, settings, sent,
                   wrote, missed, last, lastWriter, call>>

\* lines 147-150: reply_text delivered the reply, log_conversation appends
\* the pair, the handler returns
ReplyDone(h) ==
    /\ pc[h] = "replying"
    /\ conversations' = log_conversation(conversations, user_id[h],
                                         user_message[h], claude_response[h])
    /\ Finish(h, "replied", Append(sent[h], Reply(claude_response[h])))
    /\ UNCHANGED <<users, sessions, nextId, lastWriter, call>>

\* line 147 raises (the reply is not delivered): line 150 is skipped
ReplyFails(h) ==
    /\ pc[h] = "replying"
    /\ cause' = [cause EXCEPT ![h] = "reply_text"]
    /\ pc' = [pc EXCEPT ![h] = "apologizing"]
    /\ UNCHANGED <<store, nextId, user_id, user_message, settings, history,
                   claude_response, sent, wrote, missed, last, lastWriter,
                   call>>

\* line 150 raises after the reply was delivered
LogFails(h) ==
    /\ pc[h] = "replying"
    /\ sent' = [sent EXCEPT ![h] = Append(@, Reply(claude_response[h]))]
    /\ cause' = [cause EXCEPT ![h] = "log_conversation"]
    /\ pc' = [pc EXCEPT ![h] = "apologizing"]
    /\ UNCHANGED <<store, nextId, user_id, user_message, settings, history,
                   claude_response, wrote, missed, last, lastWriter, call>>

\* lines 152-156: the failure text is delivered, the handler returns
ApologyDone(h) ==
    /\ pc[h] = "apologizing"
    /\ Finish(h, "apologized", Append(sent[h], Apology))
    /\ UNCHANGED <<store, nextId, lastWriter, call>>

\* line 154 raises inside the except clause: the exception leaves the handler
ApologyFails(h) ==
    /\ pc[h] = "apologizing"
    /\ Finish(h, "raised", sent[h])
    /\ UNCHANGED <<store, nextId, lastWriter, call>>

\* update.effective_user.username
username(u) == IF u = 1 THEN "ann" ELSE "bob"

\* The dispatcher: messages and /clear of every user, in any order, a new
\* handler being started while others are suspended.
Dispatch(limit) ==
    \/ \E u \in Users : nextId < FirstId + limit /\ HandleStart(u)
    \/ \E u \in Users, step \in {"get_user_settings", "get_session"} :
          nextId < FirstId + limit /\ LoadFails(u, step)
    \/ \E h \in Handlers : TypingDone(h)
    \/ \E h \in Handlers : TypingFails(h)
    \/ \E h \in Handlers, r \in Replies : ModelReply(h, r)
    \/ \E h \in Handlers : ModelFails(h)
    \/ \E h \in Handlers, r \in Replies : PersistFails(h, r)
    \/ \E h \in Handlers : ReplyDone(h)
    \/ \E h \in Handlers : ReplyFails(h)
    \/ \E h \in Handlers : LogFails(h)
    \/ \E h \in Handlers : ApologyDone(h)
    \/ \E h \in Handlers : ApologyFails(h)
    \/ \E u \in Users : clear_command(u) /\ UNCHANGED call

Next == Dispatch(MaxMsgs)

Spec == Init /\ [][Next]_vars

\* The same with /start and the settings commands.
ModelArgs == {<<>>, <<OtherModel>>}
TempArgs == {<<>>, <<"abc">>, <<"1.5">>, <<"0.5">>}
NextAll ==
    \/ Dispatch(MaxAllMsgs)
    \/ \E u \in Users : start_command(u, username(u)) /\ UNCHANGED call
    \/ \E u \in Users, a \in ModelArgs : set_model_command(u, a) /\ UNCHANGED call
    \/ \E u \in Users, a \in TempArgs : set_temp_command(u, a) /\ UNCHANGED call

SpecAll == Init /\ [][NextAll]_vars

\* One user, one message at a time: a message is received only when no
\* handler is in flight, and every step succeeds.  The run starts on a fresh
\* store with message 1.
SeqUser == CHOOSE u \in Users : \A v \in Users : u <= v
InitSeq ==
    /\ InitLocals
    /\ InitStore([FreshStore EXCEPT !.nextId = 1])
NextSeq ==
    \/ nextId <= MaxSeqMsgs /\ Free = Handlers /\ HandleStart(SeqUser)
    \/ \E h \in Handlers : TypingDone(h)
    \/ \E h \in Handlers, r \in Replies : ModelReply(h, r)
    \/ \E h \in Handlers : ReplyDone(h)
    \/ Free = Handlers /\ start_command(SeqUser, username(SeqUser)) /\ UNCHANGED call

SpecSeq == InitSeq /\ [][NextSeq]_vars

NextUsers ==
    \/ \E u \in Users, name \in Names : RegisterUserCall(u, name)
    \/ \E u \in Users, k \in Keys : \E v \in Values(k) : UpdateSettingCall(u, k, v)
    \/ \E u \in Users : GetSettingsCall(u)
    \/ \E u \in Users, name \in Names : StartCommandCall(u, name)

SpecUsers == Init /\ [][NextUsers]_vars

\* Users who wait for the answer before they send the next message, and who
\* use every command that writes the store: handlers of different users are
\* in flight together, two handlers of one user never are.  The Model Client
\* answers or fails; the store and Telegram do not fail.
Waiting(u) == \A h \in Handlers : user_id[h] # u
NextWait ==
    \/ \E u \in Users :
          nextId < FirstId + MaxWaitMsgs /\ Waiting(u) /\ HandleStart(u)
    \/ \E h \in Handlers : TypingDone(h)
    \/ \E h \in Handlers : ModelReply(h, 1)
    \/ \E h \in Handlers : ModelFails(h)
    \/ \E h \in Handlers : ReplyDone(h)
    \/ \E h \in Handlers : ApologyDone(h)
    \/ \E u \in Users : clear_command(u) /\ UNCHANGED call
    \/ \E u \in Users : start_command(u, username(u)) /\ UNCHANGED call
    \/ \E u \in Users : set_model_command(u, <<OtherModel>>) /\ UNCHANGED call
    \/ \E u \in Users : set_temp_command(u, <<"0.5">>) /\ UNCHANGED call

SpecWait == Init /\ [][NextWait]_vars

\* ------------------------------------------------ the command surface
\* The commands main() registers (lines 165-170), each called directly: the
\* call record holds the command, its arguments, the store before it ran
\* (before) and what it passed to reply_text (reply).
AllTempArgs ==
    {<<>>, <<"abc">>, <<"1.5">>, <<"-0.5">>, <<"0.0">>, <<"0.5">>, <<"1.0">>}
StoreNow == [users |-> users, sessions |-> sessions, conversations |-> conversations]

SetTempCall(u, args) ==
    /\ set_temp_command(u, args)
    /\ call' = [op |-> "set_temp_command", user_id |-> u, args |-> args,
                before |-> StoreNow, reply |-> set_temp_reply(args)]

SetModelCall(u, args) ==
    /\ set_model_command(u, args)
    /\ call' = [op |-> "set_model_command", user_id |-> u, args |-> args,
                before |-> StoreNow, reply |-> set_model_reply(args)]

\* settings_command, lines 62-78: the three values shown, each with its
\* default when the key is absent
SettingsCall(u) ==
    /\ call' = [op |-> "settings_command", user_id |-> u, args |-> <<>>,
                before |-> StoreNow,
                reply |-> LET d == get_user_settings(users, u)
                          IN  [model |-> dict_get(d, "model", DefaultModel),
                               temperature |-> dict_get(d, "temperature",
                                                        DefaultTemperature),
                               max_tokens |-> dict_get(d, "max_tokens",
                                                       DefaultMaxTokens)]]
    /\ UNCHANGED <<store, nextId, locals, last, lastWriter>>

\* help_command, lines 43-52: a fixed text
HelpCall(u) ==
    /\ call' = [op |-> "help_command", user_id |-> u, args |-> <<>>,
                before |-> StoreNow, reply |-> "help"]
    /\ UNCHANGED <<store, nextId, locals, last, lastWriter>>

\* inflight: the messages of u whose handlers have loaded the history and
\* have not yet persisted when the command runs
ClearCommandCall(u) ==
    /\ clear_command(u)
    /\ call' = [op |-> "clear_command", user_id |-> u, args |-> <<>>,
                before |-> StoreNow, reply |-> "cleared",
                inflight |-> {user_message[h] : h \in InFlight(u)}]

StartCall(u) ==
    /\ start_command(u, username(u))
    /\ call' = [op |-> "start_command", user_id |-> u, args |-> <<>>,
                before |-> StoreNow, reply |-> "greeting"]

NextCommands ==
    \/ \E u \in Users : StartCall(u)
    \/ \E u \in Users : HelpCall(u)
    \/ \E u \in Users : ClearCommandCall(u)
    \/ \E u \in Users : SettingsCall(u)
    \/ \E u \in Users, a \in ModelArgs : SetModelCall(u, a)
    \/ \E u \in Users, a \in AllTempArgs : SetTempCall(u, a)

SpecCommands == Init /\ [][NextCommands]_vars

\* Messages and /clear of every user in any order, each /clear recorded; the
\* Model Client answers or fails, the store and Telegram do not fail.
NextClear ==
    \/ \E u \in Users : nextId < FirstId + MaxClearMsgs /\ HandleStart(u)
    \/ \E h \in Handlers : TypingDone(h)
    \/ \E h \in Handlers, r \in Replies : ModelReply(h, r)
    \/ \E h \in Handlers : ModelFails(h)
    \/ \E h \in Handlers : ReplyDone(h)
    \/ \E h \in Handlers : ApologyDone(h)
    \/ \E u \in Users : ClearCommandCall(u)

SpecClear == Init /\ [][NextClear]_vars

\* A user who keeps using the command surface: every registered command is
\* sent again and again, /set_model without and with a name, /set_temp
\* without an argument, with a text, with a value out of range and with a
\* value in range.
FairCommands ==
    /\ \A u \in Users : WF_vars(StartCall(u))
    /\ \A u \in Users : WF_vars(HelpCall(u))
    /\ \A u \in Users : WF_vars(ClearCommandCall(u))
    /\ \A u \in Users : WF_vars(SettingsCall(u))
    /\ \A u \in Users : \A a \in ModelArgs : WF_vars(SetModelCall(u, a))
    /\ \A u \in Users : \A a \in TempArgs : WF_vars(SetTempCall(u, a))

SpecCommandsFair == SpecCommands /\ FairCommands

\* =============================================================== claims

\* What is stored for a user, as get_session reads it.
Stored(u) == get_session(sessions, u)
Holds(seq, e) == \E i \in 1..Len(seq) : seq[i] = e
Logged(u, t, r) ==
    Holds(conversations, [user_id |-> u, user_message |-> t, bot_response |-> r])

\* C1: in every reachable state, whatever messages, /clear and settings
\* commands were handled and however their handlers interleaved, each user's
\* stored working history has at most 20 entries.
C1_HistoryAtMost20 == \A u \in Users : Len(Stored(u)) <= 20
C1_Witness ==
    \E h \in Handlers :
        /\ wrote[h]
        /\ Len(history[h]) > 20
        /\ Len(Stored(user_id[h])) = 20

\* C3: when the Model Client call of a handler fails, no step of that
\* handler, from the failure on, writes the session store or the audit log,
\* and the user turn it appended in memory is not in the stored history.
C3_FailedCallWritesNothing ==
    [][\A h \in Handlers :
          (pc'[h] # pc[h] /\ (cause'[h] = "send_message" \/ cause[h] = "send_message"))
          => /\ sessions' = sessions
             /\ conversations' = conversations
             /\ ~Holds(get_session(sessions', user_id[h]),
                       Turn("user", user_message[h]))]_vars
C3_Witness ==
    \E h \in Handlers :
        /\ pc[h] = "apologizing"
        /\ cause[h] = "send_message"
        /\ Len(Stored(user_id[h])) = 20
        /\ Len(history[h]) = 21

\* C4: after n consecutive successful exchanges of one user, handled one
\* after another from an empty history, the stored history is exactly the
\* last min(n, 10) user/assistant pairs in order and the audit log holds all
\* n pairs in order.
C4_SequentialRun ==
    Free = Handlers =>
        LET n == nextId - 1
            m == Min(n, 10)
            stored == Stored(SeqUser)
        IN  /\ Len(conversations) = n
            /\ \A i \in 1..n :
                  /\ conversations[i].user_id = SeqUser
                  /\ conversations[i].user_message = i
                  /\ conversations[i].bot_response \in Replies
            /\ Len(stored) = 2 * m
            /\ \A i \in 1..m :
                  /\ stored[2 * i - 1] =
                        Turn("user", conversations[n - m + i].user_message)
                  /\ stored[2 * i] =
                        Turn("assistant", conversations[n - m + i].bot_response)
C4_Witness ==
    /\ Free = Handlers
    /\ Len(conversations) = 11
    /\ Len(Stored(SeqUser)) = 20
    /\ Stored(SeqUser)[1] = Turn("user", 2)

\* C5: no exception leaves handle_message, whichever step fails.
C5_NoExceptionEscapes == last.outcome # "raised"

\* C6: when a handler that persisted its exchange into the working history
\* ends, the (user text, bot text) pair of that exchange is in the audit log.
C6_PersistedPairIsLogged ==
    [][\A h \in Handlers :
          (pc[h] # "idle" /\ pc'[h] = "idle" /\ wrote[h])
          => \E i \in 1..Len(conversations') :
                conversations'[i] = [user_id |-> user_id[h],
                                     user_message |-> user_message[h],
                                     bot_response |-> claude_response[h]]]_vars

\* C10: a handler that loaded the history before another handler of the same
\* user persisted, and persists after it, overwrites the row: the stored
\* history is its own list and holds none of the turns persisted in between.
IsLastWriter(h) == wrote[h] /\ lastWriter[user_id[h]] = user_message[h]
C10_LastWriterWins ==
    \A h \in Handlers :
        IsLastWriter(h) =>
            /\ Stored(user_id[h]) = LastN(history[h], 20)
            /\ Holds(Stored(user_id[h]), Turn("user", user_message[h]))
            /\ \A t \in missed[h] : ~Holds(Stored(user_id[h]), Turn("user", t))
C10_Witness ==
    \E h \in Handlers :
        /\ IsLastWriter(h)
        /\ pc[h] = "replying"
        /\ missed[h] # {}
        /\ \A t \in missed[h] : \E r \in Replies : Logged(user_id[h], t, r)

\* C2: update_session(user, x) followed by get_session(user) returns exactly
\* the last min(len(x), 20) entries of x in their order, never more than 20.
GetAfterUpdate ==
    /\ call.op = "get_session"
    /\ call.prev.op = "update_session"
    /\ call.prev.user_id = call.user_id
C2_RoundTripIsSuffix ==
    GetAfterUpdate =>
        LET x == call.prev.x
            r == call.result
        IN  /\ Len(r) = Min(Len(x), 20)
            /\ Len(r) <= 20
            /\ \A i \in 1..Len(r) : r[i] = x[Len(x) - Len(r) + i]
C2_Witness ==
    GetAfterUpdate /\ Len(call.prev.x) > 20 /\ Len(call.result) = 20

\* C9: clear_session(user) followed by get_session(user) returns the empty
\* sequence, whatever was stored before, also when the user has no row.
GetAfterClear ==
    /\ call.op = "get_session"
    /\ call.prev.op = "clear_session"
    /\ call.prev.user_id = call.user_id
C9_ClearThenLoadEmpty == GetAfterClear => call.result = <<>>
C9_Witness == GetAfterClear /\ Len(call.prev.before) = 20

\* C7: after update_user_setting(id, key, value), get_user_settings(id) maps
\* key to value and every other key to the value it had before the update,
\* for any user id, a user with no stored settings included.
GetAfterSet ==
    /\ call.op = "get_user_settings"
    /\ call.prev.op = "update_user_setting"
    /\ call.prev.user_id = call.user_id
SettingReflected ==
    LET r == call.result
        before == call.prev.dict
    IN  /\ call.prev.key \in DOMAIN r
        /\ r[call.prev.key] = call.prev.value
        /\ \A k \in DOMAIN before \ {call.prev.key} :
              k \in DOMAIN r /\ r[k] = before[k]
C7_UpdateThenGetReflects == GetAfterSet => SettingReflected
\* What the code does keep: the same for a user who has a users row.
C7_RegisteredUpdateThenGetReflects ==
    (GetAfterSet /\ user_exists(users, call.user_id)) => SettingReflected

\* C8: register_user for an id that already exists raises no error and
\* leaves the existing record unchanged.
RegisterExisting == call.op = "register_user" /\ call.existed
C8_RegisterExistingIsNoOp ==
    RegisterExisting => ~call.raised /\ RowOf(users, call.user_id) = call.row
\* C8 as amended: register_user for an existing id raises the duplicate-key
\* error and leaves the record unchanged; start_command, which calls it only
\* when user_exists is false, raises nothing and leaves the record unchanged.
C8_RegisterExistingRaisesStartIsNoOp ==
    /\ RegisterExisting =>
          call.raised /\ RowOf(users, call.user_id) = call.row
    /\ (call.op = "start_command" /\ call.existed) =>
          ~call.raised /\ RowOf(users, call.user_id) = call.row
C8_Witness ==
    /\ RegisterExisting
    /\ call.name # call.row.username
    /\ call.row.settings # json_dumps_dict(default_settings)

\* C11: /set_temp changes the stored temperature only when its argument
\* parses as a number in [0.0, 1.0], both bounds included, and then changes
\* nothing but that user's temperature; with "abc", "1.5", "-0.5" or no
\* argument the store is left as it was and the reply is the usage, the
\* not-a-number or the range message.
InRangeArgs == {<<"0.0">>, <<"0.5">>, <<"1.0">>}
TenthsOf(a) == CASE a = <<"0.0">> -> 0 [] a = <<"0.5">> -> 5 [] a = <<"1.0">> -> 10
StoredValues(tbl, u, k) ==
    LET row == RowOf(tbl, u).settings
    IN  {row[i].val : i \in {j \in 1..Len(row) : row[j].key = k}}
StoredTemperature(tbl, u) == StoredValues(tbl, u, "temperature")
C11_SetTempOnlyInRange ==
    call.op = "set_temp_command" =>
        /\ sessions = call.before.sessions
        /\ conversations = call.before.conversations
        /\ call.args \notin InRangeArgs =>
              /\ users = call.before.users
              /\ call.reply \in {"usage", "not_a_number", "out_of_range"}
        /\ call.args \in InRangeArgs =>
              /\ call.reply = "changed"
              /\ DOMAIN users = DOMAIN call.before.users
              /\ \A v \in DOMAIN users \ {call.user_id} :
                    users[v] = call.before.users[v]
              /\ user_exists(users, call.user_id) =>
                    /\ StoredTemperature(users, call.user_id)
                          = {TenthsOf(call.args)}
                    /\ users[call.user_id].username
                          = call.before.users[call.user_id].username
                    /\ \A k \in Keys \ {"temperature"} :
                          dict_get(get_user_settings(users, call.user_id), k, 0)
                          = dict_get(get_user_settings(call.before.users,
                                                       call.user_id), k, 0)
C11_Witness ==
    /\ call.op = "set_temp_command"
    /\ call.args = <<"1.5">>
    /\ call.reply = "out_of_range"
    /\ StoredTemperature(users, call.user_id) = {10}

\* C12: a step of an operation of one user (a step of a message handler,
\* /clear, /set_model, /set_temp, /start) leaves what is stored for every
\* other user as it was: the history, the users row (name and settings) and
\* the audit-log entries, whatever handlers of other users are in flight.
StoredFor(v) ==
    [history |-> IF v \in DOMAIN sessions THEN <<sessions[v]>> ELSE <<>>,
     row |-> IF v \in DOMAIN users THEN <<users[v]>> ELSE <<>>,
     log |-> SelectSeq(conversations, LAMBDA e : e.user_id = v)]
OperationOf(u) ==
    \/ HandleStart(u) /\ user_id'[LowestFree] = u
    \/ \E h \in Handlers :
          /\ user_id[h] = u
          /\ \/ TypingDone(h) \/ TypingFails(h) \/ ModelFails(h)
             \/ \E r \in Replies : ModelReply(h, r) \/ PersistFails(h, r)
             \/ ReplyDone(h) \/ ReplyFails(h) \/ LogFails(h)
             \/ ApologyDone(h) \/ ApologyFails(h)
    \/ clear_command(u)
    \/ start_command(u, username(u))
    \/ \E a \in ModelArgs : set_model_command(u, a)
    \/ \E a \in TempArgs : set_temp_command(u, a)
C12_OtherUsersUntouched ==
    [][\A u \in Users :
          OperationOf(u) => \A v \in Users \ {u} : StoredFor(v)' = StoredFor(v)]_vars
C12_Witness ==
    /\ Len(Stored(2)) = 2
    /\ Len(StoredFor(2).log) = 1
    /\ user_exists(users, 2)
    /\ dict_get(get_user_settings(users, 2), "model", OtherModel) = DefaultModel
    /\ dict_get(get_user_settings(users, 1), "model", DefaultModel) = OtherModel
    /\ Len(StoredFor(1).log) = max_messages
    /\ \E h \in Handlers :
          /\ user_id[h] = 1
          /\ pc[h] = "replying"
          /\ Stored(1) = LastN(history[h], 20)

\* C13: the model, temperature and max_tokens a handler passes to the Model
\* Client are, key by key, the value stored for the user when the handler
\* loaded the settings, and the default (default model, 0.7, 4000) for a key
\* with no stored value: all three defaults for a user with no settings.
\* They do not change between the load and the call.
StoredOrDefault(stored, default, passed) ==
    IF stored = {} THEN passed = default ELSE stored = {passed}
C13_DefaultsUnlessStored ==
    [][\A h \in Handlers :
          /\ (pc[h] = "idle" /\ pc'[h] = "typing") =>
                LET u == user_id'[h]
                    a == send_message_args(h)'
                IN  /\ StoredOrDefault(StoredValues(users, u, "model"), DefaultModel, a.model)
                    /\ StoredOrDefault(StoredValues(users, u, "temperature"), 7, a.temperature)
                    /\ StoredOrDefault(StoredValues(users, u, "max_tokens"), 4000, a.max_tokens)
          /\ (pc[h] = "typing" /\ pc'[h] = "calling") =>
                LET a == send_message_args(h)
                    b == send_message_args(h)'
                IN  /\ a.model = b.model
                    /\ a.temperature = b.temperature
                    /\ a.max_tokens = b.max_tokens]_vars
C13_Witness ==
    \E g, h \in Handlers :
        /\ pc[g] = "calling" /\ pc[h] = "calling"
        /\ ~user_exists(users, user_id[g])
        /\ send_message_args(g).model = DefaultModel
        /\ send_message_args(g).temperature = DefaultTemperature
        /\ send_message_args(g).max_tokens = DefaultMaxTokens
        /\ send_message_args(h).model = OtherModel
        /\ send_message_args(h).temperature = DefaultTemperature
        /\ send_message_args(h).max_tokens = DefaultMaxTokens

\* C14: for each of the three settings (model, temperature, max tokens) a
\* user who keeps using every registered command, with and without valid
\* arguments, gets at some point a stored value that differs from the default.
Setting(u, k, default) == dict_get(get_user_settings(users, u), k, default)
C14_EverySettingCanBeChanged ==
    /\ <>(\E u \in Users : Setting(u, "model", DefaultModel) # DefaultModel)
    /\ <>(\E u \in Users :
            Setting(u, "temperature", DefaultTemperature) # DefaultTemperature)
    /\ <>(\E u \in Users :
            Setting(u, "max_tokens", DefaultMaxTokens) # DefaultMaxTokens)
\* What the code does provide: the model and the temperature can be changed,
C14_ModelAndTemperatureCanBeChanged ==
    /\ <>(\E u \in Users : Setting(u, "model", DefaultModel) # DefaultModel)
    /\ <>(\E u \in Users :
            Setting(u, "temperature", DefaultTemperature) # DefaultTemperature)
\* and max tokens is the default in every reachable state.
C14_MaxTokensStaysDefault ==
    \A u \in Users : Setting(u, "max_tokens", DefaultMaxTokens) = DefaultMaxTokens

\* C15: a clear_session call changes nothing but the caller's working
\* history: the audit log, the users table (names and settings) and the
\* histories of the other users are the same after the call as before it.
C15_ClearTouchesOnlyHistory ==
    [][call'.op = "clear_session" =>
          /\ conversations' = conversations
          /\ users' = users
          /\ DOMAIN sessions' = DOMAIN sessions
          /\ \A v \in DOMAIN sessions \ {call'.user_id} : sessions'[v] = sessions[v]]_vars
C15_Witness ==
    /\ call.op = "clear_session"
    /\ Len(call.before) = 20
    /\ Stored(call.user_id) = <<>>
    /\ Len(StoredFor(call.user_id).log) = max_messages
    /\ get_user_settings(users, call.user_id) = default_settings
    /\ \E v \in Users \ {call.user_id} : Len(Stored(v)) = 20

\* C16: the audit log is append-only: in every step of every execution the
\* log before the step is a prefix of the log after it, so a row once
\* written is never changed, moved or removed.
IsPrefix(a, b) == Len(a) <= Len(b) /\ SubSeq(b, 1, Len(a)) = a
C16_AuditLogAppendOnly == [][IsPrefix(conversations, conversations')]_vars
C16_Witness ==
    /\ Len(conversations) = max_messages + 2
    /\ conversations[max_messages + 1].user_id = conversations[max_messages + 2].user_id
    /\ Stored(conversations[max_messages + 1].user_id) = <<>>

\* C17: the turns a handler passes to the Model Client are the history it
\* loaded when it started followed by the new user turn: never empty, at most
\* 21 entries, the user turn last.  A handler makes the call from the typing
\* await only, which it enters once, for a fresh message: at most one call
\* per message.
C17_CallGetsLoadedHistoryPlusTurn ==
    [][\A h \in Handlers :
          /\ pc'[h] = "typing" /\ pc[h] # "typing" =>
                /\ pc[h] = "idle"
                /\ user_message'[h] = nextId /\ nextId' > nextId
                /\ history'[h] = Stored(user_id'[h])
                                    \o <<Turn("user", user_message'[h])>>
          /\ pc'[h] = "calling" /\ pc[h] # "calling" =>
                LET m == send_message_args(h)'.messages
                IN  /\ pc[h] = "typing"
                    /\ user_message'[h] = user_message[h]
                    /\ m = history[h]
                    /\ Len(m) >= 1 /\ Len(m) <= 21
                    /\ m[Len(m)] = Turn("user", user_message[h])]_vars
C17_Witness ==
    \E h \in Handlers :
        /\ pc[h] = "calling"
        /\ Len(send_message_args(h).messages) = 21
        /\ Stored(user_id[h]) = <<>>

\* C18: once a /clear of a user has completed, no user turn that was in the
\* user's stored history before it is in the stored history again, also when
\* a message of that user was in flight at the time of the clear.
ClearedTurns ==
    LET b == get_session(call.before.sessions, call.user_id)
    IN  {b[i] : i \in {j \in 1..Len(b) : b[j].role = "user"}}
C18_ClearedTurnsStayCleared ==
    call.op = "clear_command" =>
        \A t \in ClearedTurns : ~Holds(Stored(call.user_id), t)
\* C18 as amended: after a /clear, a turn stored before it is in the stored
\* history again only when a message of that user was in flight at the time
\* of the clear and its handler persisted afterwards (its user turn is then
\* stored with it); with no message in flight the cleared turns stay cleared.
C18_ClearedTurnsReturnOnlyWithInFlight ==
    call.op = "clear_command" =>
        \A t \in ClearedTurns :
            Holds(Stored(call.user_id), t) =>
                \E m \in call.inflight :
                    Holds(Stored(call.user_id), Turn("user", m))
C18_Witness ==
    /\ call.op = "clear_command"
    /\ Cardinality(ClearedTurns) = max_messages
    /\ \E t \in ClearedTurns : Holds(Stored(call.user_id), t)
    /\ \E m \in call.inflight : Stored(call.user_id)[19] = Turn("user", m)
    /\ Free = Handlers

\* C19: in every reachable state, however message handlers and /clear
\* interleave and whichever steps fail, each user's stored history has even
\* length and alternates user, assistant, user, ...: it starts with a user
\* turn and ends with an assistant turn when it is not empty.
Alternates(h) ==
    /\ Len(h) % 2 = 0
    /\ \A i \in 1..Len(h) :
          h[i].role = IF i % 2 = 1 THEN "user" ELSE "assistant"
C19_StoredHistoryAlternates == \A u \in Users : Alternates(Stored(u))
C19_Witness ==
    \E u \in Users :
        /\ Len(Stored(u)) = 20
        /\ Stored(u)[1] = Turn("user", 3)
        /\ Stored(u)[19] = Turn("user", FirstId + 1)

\* C20: a handler whose Model Client call has returned, with a reply or with
\* an error, ends having delivered exactly one text to the user: the reply
\* or the failure text, not both and not neither.
AfterCall(h) == pc[h] \in {"replying", "apologizing"}
Ends(h) == AfterCall(h) /\ pc'[h] = "idle"
C20_ExactlyOneResponse ==
    [][\A h \in Handlers : Ends(h) => Len(last'.sent) = 1]_vars
\* The two halves of C20.
C20_NeverBoth ==
    [][\A h \in Handlers : Ends(h) => Len(last'.sent) <= 1]_vars
C20_NeverNeither ==
    [][\A h \in Handlers : Ends(h) => Len(last'.sent) >= 1]_vars

====
